---- MODULE Spec2Model ----
(***************************************************************************)
(* Indonesia Supreme Court LLM agent: the conversation graph and its       *)
(* checkpointer (src/src/agent.py), the HTTP server's middleware chain and *)
(* chat endpoint (src/main/http_server/app.py, src/utility/               *)
(* logging_config.py), the CLI chat loop (src/main/cli/local_agent.py) and *)
(* the retrying completion helper (src/utility/llm.py).                    *)
(*                                                                         *)
(* Three specifications share the module:                                  *)
(*   Spec      one of the two chat programs (program), its graph run node  *)
(*             by node, concurrent invocations interleaving at the awaits; *)
(*   SpecHttp  the HTTP request pipeline, middleware by middleware, with   *)
(*             one graph invocation as a single step of the endpoint;      *)
(*   SpecRetry call_model under its tenacity retry decorator.              *)
(***************************************************************************)
EXTENDS Integers, Sequences, FiniteSets, TLC

\* ------------------------------------------------------------- bounds
NumThreads   == 2       \* distinct thread_id values sent to the server
MaxMsgs      == 6       \* messages held by the checkpointer, all threads together

\* two distinct user messages
Questions == {1, 2}
ThreadIds == 1..NumThreads
\* the coroutines of two chat requests in flight at the same time
Slots     == {1, 2}

\* thread_id of every CLI turn
CLI_THREAD_ID == 1

\* binary_score is a free-form str field: 'yes', 'no', or anything else
Scores == {"yes", "no", "Yes"}

\* court_document_sources the model may return
ReferenceLists == {<<>>, <<"doc">>}

VARIABLES
    program,        \* which entry point runs: "http_server" or "local_agent"
    checkpointer,   \* MemorySaver: thread_id -> stored messages
    at,             \* per invocation: "START" (not running), the node to run
                    \* next, "END", "returned"
    tid,            \* per invocation: configurable.thread_id
    user_message,   \* per invocation: the message submitted for this turn
    messages,       \* per invocation: AgentState.messages in the running graph
    grade,          \* per invocation: last grade_documents input and score
    reply,          \* per invocation: what the turn returned to its caller
    solo            \* per invocation: no other invocation of the same thread
                    \* has overlapped it since it started

graph_vars == <<program, checkpointer, at, tid, user_message, messages, grade,
                reply, solo>>

VARIABLES
    api_key,          \* settings.api_key
    now,              \* the server's clock, in minutes
    request_counts,   \* RateLimitMiddleware.request_counts: ip -> <<minute, count>>
    served,           \* calls the application below the rate limiter has
                      \* received, per client and minute
    layer,            \* per request: 0 before it arrives, the index in AppStack
                      \* of the layer it waits at, then Done, then Gone
    req               \* per request: its scope, state and response

http_vars == <<api_key, now, request_counts, served, layer, req>>

VARIABLES
    phase,      \* call_model: "idle", "attempt", "wait", "returned", "raised"
    outcomes,   \* what each attempt of the completion call ended with
    waits,      \* the seconds slept before each retry
    call_result \* what the caller of call_model got

retry_vars == <<phase, outcomes, waits, call_result>>

VARIABLES
    cases,          \* the table cases, in the order the database returns its rows
    collection,     \* the Qdrant collection: whether it exists, and its points
    cleared,        \* main printed "found existing ... clearing old index"
    offset,         \* main: offset
    indexed_count,  \* main: indexed_count
    upserted,       \* ids of the cases handed to aadd_documents, in order
    indexer         \* main: "start", "loop", "finished" or "failed"

indexer_vars == <<cases, collection, cleared, offset, indexed_count, upserted,
                  indexer>>

VARIABLES
    running,    \* one invocation of the graph, its messages left aside: "START",
                \* the node to run next, "END" or "GraphRecursionError"
    superstep,  \* the steps the invocation has taken
    config,     \* the thread_id and the user message it was invoked with
    scored      \* the last binary_score of grade_documents in it

run_vars == <<running, superstep, config, scored>>

not_graph_vars == <<http_vars, retry_vars, indexer_vars, run_vars>>
not_indexer_vars == <<graph_vars, http_vars, retry_vars, run_vars>>
not_run_vars == <<graph_vars, http_vars, retry_vars, indexer_vars>>

\* ------------------------------------------------------------ messages
NoKwargs == {}

HumanMessage(q) ==
    [type |-> "human", content |-> <<"question", q>>, tool_calls |-> FALSE,
     additional_kwargs |-> NoKwargs]

\* the agent model's answer: either a retrieval tool call or a plain answer
AgentResult(calls) ==
    [type |-> "ai", content |-> <<"agent", 0>>, tool_calls |-> calls,
     additional_kwargs |-> NoKwargs]

\* ToolNode's output: the retrieved documents joined into one string
ToolMessage ==
    [type |-> "tool", content |-> <<"documents", 0>>, tool_calls |-> FALSE,
     additional_kwargs |-> NoKwargs]

\* rewrite's model is asked to improve `question`; its answer depends on it
RewriteResult(question) ==
    [type |-> "ai", content |-> <<"improved", question[2]>>, tool_calls |-> FALSE,
     additional_kwargs |-> NoKwargs]

\* generate's AIMessage: the answer to `question`, references always attached
GenerateResult(question, references) ==
    [type |-> "ai",
     content |-> <<IF references # <<>> THEN "response+Referensi" ELSE "response",
                   question[2]>>,
     tool_calls |-> FALSE,
     additional_kwargs |-> {<<"references", references>>}]

Last(s) == s[Len(s)]

IsPrefix(s, t) == Len(s) <= Len(t) /\ SubSeq(t, 1, Len(s)) = s

\* AgentState: messages is Annotated with add_messages, "append"
add_messages_replace(left, right) == right
add_messages(left, right) == left \o right

\* ---------------------------------------------------------- the edges
\* tools_condition with the mapping {"tools": "retrieve", END: END}
tools_condition_always(msgs) == "retrieve"
tools_condition(msgs) ==
    IF Last(msgs).type = "ai" /\ Last(msgs).tool_calls THEN "retrieve" ELSE "END"

\* grade_documents' decision on the model's binary_score
grade_documents_notno(score) == IF score # "no" THEN "generate" ELSE "rewrite"
grade_documents(score) == IF score = "yes" THEN "generate" ELSE "rewrite"

\* the question grade_documents, rewrite and generate read from the state
question_of(msgs) == msgs[1].content

\* ------------------------------------------------------------- graph
NoGrade == [question |-> <<"question", 0>>, binary_score |-> "none"]
NoReply == [response |-> <<"none", 0>>, references |-> <<>>]

InitGraph ==
    /\ program \in {"http_server", "local_agent"}
    /\ checkpointer = [t \in ThreadIds |-> <<>>]
    /\ at = [r \in Slots |-> "START"]
    /\ tid = [r \in Slots |-> 1]
    /\ user_message = [r \in Slots |-> 1]
    /\ messages = [r \in Slots |-> <<>>]
    /\ grade = [r \in Slots |-> NoGrade]
    /\ reply = [r \in Slots |-> NoReply]
    /\ solo = [r \in Slots |-> TRUE]

InFlight(r) == at[r] \notin {"START", "quit"}

\* the coroutines of concurrent requests are interchangeable: a new one takes
\* the lowest free slot
FreeSlot(r) == at[r] = "START" /\ \A o \in Slots : o < r => at[o] # "START"

\* send_message's graph_run_config for the request's thread_id
graph_run_config_fixed(thread_id) == [configurable |-> [thread_id |-> 1]]
graph_run_config(thread_id) == [configurable |-> [thread_id |-> thread_id]]

\* the CLI loop's graph_run_config
cli_graph_run_config == [configurable |-> [thread_id |-> CLI_THREAD_ID, user_id |-> 1]]

\* the checkpointer key of invocation r, whose thread_id parameter is t
Key(t) ==
    IF program = "http_server" THEN graph_run_config(t).configurable.thread_id
    ELSE cli_graph_run_config.configurable.thread_id

RECURSIVE StoredUpTo(_, _)
StoredUpTo(n, except) ==
    IF n = 0 THEN 0
    ELSE (IF n = except THEN 0 ELSE Len(checkpointer[n])) + StoredUpTo(n - 1, except)

\* bound of the model: an invocation of thread t holding `state` may append
Room(t, state) == StoredUpTo(NumThreads, Key(t)) + Len(state) < MaxMsgs

\* a node's update is merged into the state and the state is checkpointed
\* under the invocation's thread_id
Write(r, t, state, update, next) ==
    /\ messages' = [messages EXCEPT ![r] = add_messages(state, update)]
    /\ checkpointer' = [checkpointer EXCEPT ![Key(t)] = messages'[r]]
    /\ at' = [at EXCEPT ![r] = next]

\* agent_graph.ainvoke(user_input, graph_run_config): the state stored for the
\* thread is loaded, the input is applied to it, and the edge START -> agent
\* is taken
Invoke(r, t, q) ==
    /\ FreeSlot(r)
    /\ Room(t, checkpointer[Key(t)])
    /\ tid' = [tid EXCEPT ![r] = t]
    /\ user_message' = [user_message EXCEPT ![r] = q]
    /\ Write(r, t, checkpointer[Key(t)], <<HumanMessage(q)>>, "agent")
    /\ solo' = [s \in Slots |->
                  IF s = r THEN \A o \in Slots \ {r} : ~(InFlight(o) /\ tid[o] = t)
                  ELSE IF InFlight(s) /\ tid[s] = t THEN FALSE ELSE solo[s]]
    /\ UNCHANGED <<program, grade, reply, not_graph_vars>>

\* POST /chatbot/user_message?thread_id=t&user_message=q
send_message(r, t, q) ==
    /\ program = "http_server"
    /\ Invoke(r, t, q)

\* one pass of the CLI loop with a line that is not quit/exit/q
cli_turn(q) ==
    /\ program = "local_agent"
    /\ Invoke(1, CLI_THREAD_ID, q)

\* the CLI loop reads quit, exit or q
cli_quit ==
    /\ program = "local_agent"
    /\ at[1] = "START"
    /\ at' = [at EXCEPT ![1] = "quit"]
    /\ UNCHANGED <<program, checkpointer, tid, user_message, messages, grade,
                   reply, solo, not_graph_vars>>

\* node agent, then the conditional edge tools_condition
agent(r) ==
    /\ at[r] = "agent"
    /\ Room(tid[r], messages[r])
    /\ \E calls \in BOOLEAN :
         LET result == AgentResult(calls)
         IN  Write(r, tid[r], messages[r], <<result>>, tools_condition(messages[r] \o <<result>>))
    /\ UNCHANGED <<program, tid, user_message, grade, reply, solo, not_graph_vars>>

\* node retrieve (ToolNode), then the conditional edge grade_documents
retrieve(r) ==
    /\ at[r] = "retrieve"
    /\ Room(tid[r], messages[r])
    /\ \E score \in Scores :
         LET state == messages[r] \o <<ToolMessage>>
         IN  /\ grade' = [grade EXCEPT ![r] =
                            [question |-> question_of(state),
                             binary_score |-> score]]
             /\ Write(r, tid[r], messages[r], <<ToolMessage>>, grade_documents(score))
    /\ UNCHANGED <<program, tid, user_message, reply, solo, not_graph_vars>>

\* node rewrite, then the edge rewrite -> agent
rewrite(r) ==
    /\ at[r] = "rewrite"
    /\ Room(tid[r], messages[r])
    /\ Write(r, tid[r], messages[r], <<RewriteResult(question_of(messages[r]))>>, "agent")
    /\ grade' = [grade EXCEPT ![r] = NoGrade]
    /\ UNCHANGED <<program, tid, user_message, reply, solo, not_graph_vars>>

\* node generate, then the edge generate -> END
generate(r) ==
    /\ at[r] = "generate"
    /\ Room(tid[r], messages[r])
    /\ \E references \in ReferenceLists :
         Write(r, tid[r], messages[r],
               <<GenerateResult(question_of(messages[r]), references)>>, "END")
    /\ grade' = [grade EXCEPT ![r] = NoGrade]
    /\ UNCHANGED <<program, tid, user_message, reply, solo, not_graph_vars>>

\* what the caller builds from the final state: the last message's content and
\* its references when additional_kwargs has the key
Response_sticky(state) ==
    LET with_references ==
            {k \in 1..Len(state) :
                \E kw \in state[k].additional_kwargs : kw[1] = "references"}
        latest == CHOOSE k \in with_references : \A o \in with_references : o <= k
    IN  [response |-> Last(state).content,
         references |->
            IF with_references = {} THEN <<>>
            ELSE (CHOOSE kw \in state[latest].additional_kwargs :
                      kw[1] = "references")[2]]
Response(state) ==
    LET ai_response == Last(state)
    IN  [response |-> ai_response.content,
         references |->
            IF \E kw \in ai_response.additional_kwargs : kw[1] = "references"
            THEN (CHOOSE kw \in ai_response.additional_kwargs :
                      kw[1] = "references")[2]
            ELSE <<>>]

\* ainvoke returns its final state; the endpoint builds its ChatbotResponse
\* (the CLI prints the answer)
Return(r) ==
    /\ at[r] = "END"
    /\ reply' = [reply EXCEPT ![r] = Response(messages[r])]
    /\ at' = [at EXCEPT ![r] = "returned"]
    /\ UNCHANGED <<program, checkpointer, tid, user_message, messages, grade, solo, not_graph_vars>>

\* the answer has been delivered: the request's coroutine and its locals are gone
Close(r) ==
    /\ at[r] = "returned"
    /\ at' = [at EXCEPT ![r] = "START"]
    /\ tid' = [tid EXCEPT ![r] = 1]
    /\ user_message' = [user_message EXCEPT ![r] = 1]
    /\ messages' = [messages EXCEPT ![r] = <<>>]
    /\ reply' = [reply EXCEPT ![r] = NoReply]
    /\ solo' = [solo EXCEPT ![r] = TRUE]
    /\ UNCHANGED <<program, checkpointer, grade, not_graph_vars>>

\* ------------------------------------------------------ the HTTP server
MaxRequests == 3        \* requests the server receives
MaxMinute   == 1        \* last minute of the clock

Requests == 1..MaxRequests
\* two requests are between arrival and response at the same time
OpenAtOnce == {1, 2}

\* RATE_LIMIT: calls_per_minute of RateLimitMiddleware
calls_per_minute == 2

Clients == {"10.0.0.1", "10.0.0.2"}

\* APIKeyHeader(auto_error=False) yields None for a request without the header
NoHeader == "<None>"
Headers == {NoHeader, "secret", "wrong"}

\* the order of the app.add_middleware calls; TrustedHostMiddleware and
\* CORSMiddleware, added before these three, lie between the rate limiter and
\* the route and touch nothing the model holds
AddOrder == <<"RateLimitMiddleware", "LoggingMiddleware", "RequestIDMiddleware">>

\* add_middleware puts each middleware in front of those added before it: the
\* one added last is the outermost. The endpoint comes after all of them.
AppStack ==
    [i \in 1..Len(AddOrder) |-> AddOrder[Len(AddOrder) + 1 - i]] \o <<"send_message">>

\* the request waits at the route /chatbot/user_message
AtEndpoint == Len(AppStack)
\* the response is on its way out through the stack
Done == Len(AppStack) + 1
\* the response has left the server and the request's scope is gone
Gone == Len(AppStack) + 2

\* scope.get("request_id", "-") when the scope has no request_id
DefaultRequestId == [text |-> "-", ms |-> 0]
\* request.state has no request_id attribute
Unset == [text |-> "<unset>", ms |-> 0]

\* f"{int(start_time * 1000)}"
request_id(start_time) == [text |-> "digits", ms |-> start_time * 60000]

\* a request nothing has touched yet
NoRequest ==
    [client           |-> "10.0.0.1",  \* request.client.host
     header           |-> NoHeader,    \* its X-API-Key header
     scope_request_id |-> Unset,       \* scope["request_id"]
     state_request_id |-> Unset,       \* request.state.request_id
     log_request_id   |-> Unset,       \* request_id of the endpoint's log lines
     minute           |-> 0,           \* current_minute seen by the rate limiter
     limited          |-> FALSE,       \* it exceeded its client's limit
     forwarded        |-> FALSE,       \* the rate limiter called call_next
     invoked          |-> FALSE,       \* agent_graph.ainvoke ran for it
     status           |-> 0,           \* status code of the response
     detail           |-> ""]          \* detail of the response

IdleHttp ==
    /\ now = 0
    /\ request_counts = <<>>
    /\ served = [ip \in Clients |-> [m \in 0..MaxMinute |-> 0]]
    /\ layer = [r \in Requests |-> 0]
    /\ req = [r \in Requests |-> NoRequest]

\* the server starts with the API key of its settings ("" when none is set),
\* an empty checkpointer and no request
InitHttp ==
    /\ InitGraph
    /\ program = "http_server"
    /\ api_key \in {"", "secret"}
    /\ IdleHttp

not_http_vars == <<at, tid, user_message, messages, grade, reply, solo, program,
                   retry_vars, indexer_vars, run_vars>>

Open(r) == layer[r] \in 1..Done

\* time.time() moves on
Tick ==
    /\ now < MaxMinute
    /\ now' = now + 1
    /\ UNCHANGED <<api_key, request_counts, served, layer, req, checkpointer,
                   not_http_vars>>

\* RequestIDMiddleware.dispatch up to call_next
RequestIDMiddleware(c) ==
    [c EXCEPT !.state_request_id =
                 IF c.scope_request_id = Unset THEN DefaultRequestId
                 ELSE c.scope_request_id]

\* LoggingMiddleware.__call__ up to self.app(scope, receive, send)
LoggingMiddleware(c, start_time) ==
    [c EXCEPT !.scope_request_id = request_id(start_time)]

\* RateLimitMiddleware.dispatch: the counts after "reset", "initialize" and
\* "increment" for a request of client_ip at current_minute
counted_noreset(counts, client_ip, current_minute) ==
    LET known == IF client_ip \in DOMAIN counts THEN counts
                 ELSE [ip \in DOMAIN counts \cup {client_ip} |->
                         IF ip = client_ip THEN <<current_minute, 0>> ELSE counts[ip]]
    IN  [known EXCEPT ![client_ip] = <<current_minute, known[client_ip][2] + 1>>]
counted(counts, client_ip, current_minute) ==
    LET reset == IF client_ip \in DOMAIN counts /\ counts[client_ip][1] # current_minute
                 THEN [counts EXCEPT ![client_ip] = <<current_minute, 0>>]
                 ELSE counts
        known == IF client_ip \in DOMAIN reset THEN reset
                 ELSE [ip \in DOMAIN reset \cup {client_ip} |->
                         IF ip = client_ip THEN <<current_minute, 0>> ELSE reset[ip]]
    IN  [known EXCEPT ![client_ip] = <<current_minute, known[client_ip][2] + 1>>]

\* RateLimitMiddleware.dispatch: "check"
over_limit(counts, client_ip) == counts[client_ip][2] > calls_per_minute

\* the name Response is not defined in app.py: building the 429 answer raises
\* NameError, which no layer handles, and the server answers 500
TooManyRequests == [status |-> 500, detail |-> "Internal Server Error"]

\* The request with context c enters layer i of AppStack while the rate limiter
\* holds `counts`: it goes down layer by layer until a layer answers it or it
\* reaches the endpoint. No layer waits on another request on the way.
RECURSIVE Pass(_, _, _)
Pass(i, c, counts) ==
    IF AppStack[i] = "RequestIDMiddleware" THEN
        Pass(i + 1, RequestIDMiddleware(c), counts)
    ELSE IF AppStack[i] = "LoggingMiddleware" THEN
        Pass(i + 1, LoggingMiddleware(c, now), counts)
    ELSE IF AppStack[i] = "RateLimitMiddleware" THEN
        LET seen == counted(counts, c.client, now)
        IN  IF over_limit(seen, c.client)
            THEN [layer |-> Done, counts |-> seen,
                  req |-> [c EXCEPT !.minute = now, !.limited = TRUE,
                                    !.status = TooManyRequests.status,
                                    !.detail = TooManyRequests.detail]]
            ELSE Pass(i + 1, [c EXCEPT !.minute = now, !.forwarded = TRUE], seen)
    ELSE [layer |-> i, counts |-> counts, req |-> c]

\* a request of client_ip arrives and goes down the middleware stack
Receive(r, client_ip) ==
    /\ layer[r] = 0
    /\ \A o \in Requests : o < r => layer[o] # 0
    /\ Cardinality({o \in Requests : Open(o)}) < Cardinality(OpenAtOnce)
    /\ LET got == Pass(1, [NoRequest EXCEPT !.client = client_ip], request_counts)
       IN  /\ layer' = [layer EXCEPT ![r] = got.layer]
           /\ req' = [req EXCEPT ![r] = got.req]
           /\ request_counts' = got.counts
           /\ served' = IF got.req.forwarded
                        THEN [served EXCEPT ![client_ip][now] = @ + 1]
                        ELSE served
    /\ UNCHANGED <<api_key, now, checkpointer, not_http_vars>>

\* verify_api_key: TRUE when the request may go on, FALSE when it raises 403
verify_api_key_lenient(key) ==
    IF api_key = "" THEN TRUE ELSE key = NoHeader \/ key = api_key
verify_api_key(key) ==
    IF api_key = "" THEN TRUE ELSE key = api_key

\* the final states agent_graph.ainvoke can return when `node` is to run on
\* `state` and `room` more messages fit the bound of the model
RECURSIVE RunFrom(_, _, _)
RunFrom(node, state, room) ==
    IF room = 0 THEN {}
    ELSE IF node = "agent" THEN
        UNION {LET next == add_messages(state, <<AgentResult(calls)>>)
               IN  IF tools_condition(next) = "END" THEN {next}
                   ELSE RunFrom(tools_condition(next), next, room - 1) :
               calls \in BOOLEAN}
    ELSE IF node = "retrieve" THEN
        UNION {RunFrom(grade_documents(score), add_messages(state, <<ToolMessage>>),
                       room - 1) : score \in Scores}
    ELSE IF node = "rewrite" THEN
        RunFrom("agent",
                add_messages(state, <<RewriteResult(question_of(state))>>), room - 1)
    ELSE
        {add_messages(state, <<GenerateResult(question_of(state), references)>>) :
            references \in ReferenceLists}

\* agent_graph.ainvoke(user_input, graph_run_config) as one step of the endpoint
ainvoke(t, q) ==
    LET key == graph_run_config(t).configurable.thread_id
        room == MaxMsgs - StoredUpTo(NumThreads, key) - Len(checkpointer[key])
    IN  IF room <= 0 THEN {}
        ELSE RunFrom("agent", add_messages(checkpointer[key], <<HumanMessage(q)>>),
                     room - 1)

\* the route /chatbot/user_message: the dependency verify_api_key, then the
\* body of send_message
Endpoint(r, key) ==
    /\ layer[r] = AtEndpoint
    /\ layer' = [layer EXCEPT ![r] = Done]
    /\ IF ~verify_api_key(key)
       THEN /\ req' = [req EXCEPT ![r].header = key, ![r].status = 403,
                                  ![r].detail = "Invalid API key"]
            /\ UNCHANGED checkpointer
       ELSE /\ req' = [req EXCEPT ![r].header = key,
                                  ![r].log_request_id = req[r].state_request_id,
                                  ![r].invoked = TRUE, ![r].status = 200]
            /\ \E t \in ThreadIds, q \in Questions :
                 \E final \in ainvoke(t, q) :
                    checkpointer' =
                       [checkpointer EXCEPT
                          ![graph_run_config(t).configurable.thread_id] = final]
    /\ UNCHANGED <<api_key, now, request_counts, served, not_http_vars>>

\* the response leaves through the layers the request came in by, and the
\* request's scope and state are dropped
Respond(r) ==
    /\ layer[r] = Done
    /\ layer' = [layer EXCEPT ![r] = Gone]
    /\ req' = [req EXCEPT ![r] = NoRequest]
    /\ UNCHANGED <<api_key, now, request_counts, served, checkpointer,
                   not_http_vars>>

NextHttp ==
    \/ Tick
    \/ \E r \in Requests, client_ip \in Clients : Receive(r, client_ip)
    \/ \E r \in Requests, key \in Headers : Endpoint(r, key)
    \/ \E r \in Requests : Respond(r)

\* ---------------------------------------------------------- call_model
\* what one run of the body of call_model ends with: the message of the
\* completion, or an exception
Completion == "completion"

\* retry_if_exception_type((...)): the exception classes that are retried
RetryableErrors ==
    {"Timeout", "RateLimitError", "APIConnectionError", "APIError",
     "ServiceUnavailableError"}

\* exceptions of other classes: one of litellm, one raised by the body itself
OtherErrors == {"AuthenticationError", "ValueError"}

Outcomes == {Completion} \cup RetryableErrors \cup OtherErrors

\* tenacity raises RetryError when it gives up and reraise is off
RetryError == "RetryError"

\* stop_after_attempt(5)
max_attempt_number == 5
\* wait_exponential(multiplier=1, min=5, max=10)
multiplier == 1
wait_min == 5
wait_max == 10
\* reraise=True
reraise == TRUE

Max(a, b) == IF a >= b THEN a ELSE b
Min(a, b) == IF a <= b THEN a ELSE b

retry_any_exception(outcome) == outcome # Completion
retry_if_exception_type(outcome) == outcome \in RetryableErrors

stop_after_attempt_late(attempt_number) == attempt_number >= max_attempt_number + 1
stop_after_attempt(attempt_number) == attempt_number >= max_attempt_number

\* seconds to sleep after attempt number attempt_number failed
wait_exponential_unclamped(attempt_number) ==
    multiplier * 2 ^ (attempt_number - 1)
wait_exponential(attempt_number) ==
    Max(wait_min, Min(multiplier * 2 ^ (attempt_number - 1), wait_max))

NoResult == [how |-> "none", what |-> "none"]

IdleRetry ==
    /\ phase = "idle"
    /\ outcomes = <<>>
    /\ waits = <<>>
    /\ call_result = NoResult

not_retry_vars == <<graph_vars, http_vars, indexer_vars, run_vars>>

\* a node of the graph calls call_model
call_model ==
    /\ phase = "idle"
    /\ phase' = "attempt"
    /\ UNCHANGED <<outcomes, waits, call_result, not_retry_vars>>

\* one attempt: the body of call_model runs and ends with `outcome`, then the
\* retry wrapper decides: return the result, let the exception through, give
\* up, or sleep before the next attempt
Attempt(outcome) ==
    /\ phase = "attempt"
    /\ outcomes' = Append(outcomes, outcome)
    /\ LET attempt_number == Len(outcomes) + 1
       IN  IF outcome = Completion THEN
               /\ phase' = "returned"
               /\ call_result' = [how |-> "returned", what |-> outcome]
               /\ UNCHANGED waits
           ELSE IF ~retry_if_exception_type(outcome) THEN
               /\ phase' = "raised"
               /\ call_result' = [how |-> "raised", what |-> outcome]
               /\ UNCHANGED waits
           ELSE IF stop_after_attempt(attempt_number) THEN
               /\ phase' = "raised"
               /\ call_result' = [how |-> "raised",
                                  what |-> IF reraise THEN outcome ELSE RetryError]
               /\ UNCHANGED waits
           ELSE
               /\ phase' = "sleep"
               /\ waits' = Append(waits, wait_exponential(attempt_number))
               /\ UNCHANGED call_result
    /\ UNCHANGED not_retry_vars

\* the sleep between two attempts is over
Sleep ==
    /\ phase = "sleep"
    /\ phase' = "attempt"
    /\ UNCHANGED <<outcomes, waits, call_result, not_retry_vars>>

\* the caller has the result or the exception; the next call starts afresh
Finish ==
    /\ phase \in {"returned", "raised"}
    /\ phase' = "idle"
    /\ outcomes' = <<>>
    /\ waits' = <<>>
    /\ call_result' = NoResult
    /\ UNCHANGED not_retry_vars

NextRetry ==
    \/ call_model
    \/ \E outcome \in Outcomes : Attempt(outcome)
    \/ Sleep
    \/ Finish

\* ------------------------------------------------------------ the indexer
MaxRows == 6            \* rows of the table cases

\* limit = 5 in main
limit == 5

SupremeCourt == "Indonesia Supreme Court"

\* a column that is NULL
Null == <<"NULL">>

\* the rows the model puts in the table: a case of the Supreme Court with both
\* summaries, its summary_formatted splitting into one chunk or into two; one
\* with summary_formatted_en but no summary_formatted; one of another source;
\* one without summary_formatted_en
RowKinds == {"one_chunk", "two_chunks", "no_summary_formatted", "other_source",
             "no_summary_formatted_en"}

\* class Cases: the row with primary key i of the given kind; its
\* summary_formatted names the case and the number of chunks it splits into
Cases(i, kind) ==
    [id |-> i,
     source |-> IF kind = "other_source" THEN "Other Court" ELSE SupremeCourt,
     decision_number |-> <<"decision", i>>,
     summary_formatted |->
        IF kind = "no_summary_formatted" THEN Null
        ELSE <<"summary", i, IF kind = "two_chunks" THEN 2 ELSE 1>>,
     summary_formatted_en |->
        IF kind = "no_summary_formatted_en" THEN Null ELSE <<"summary_en", i>>]

\* the table with rows of the given kinds, in this order
Table(kinds) == [i \in 1..Len(kinds) |-> Cases(i, kinds[i])]

\* no collection of the name SUPREME_COURT_CASE_COLLECTION in the Qdrant store
NoCollection == [exists |-> FALSE, points |-> <<>>]
\* a vector an earlier run left in the collection
OldPoint ==
    [page_content |-> <<"chunk", 0, 1>>,
     metadata |-> [decision_number |-> <<"decision", 0>>,
                   full_summary |-> <<"summary", 0, 1>>]]

IdleIndexer ==
    /\ cases = <<>>
    /\ collection = NoCollection
    /\ cleared = FALSE
    /\ offset = 0
    /\ indexed_count = 0
    /\ upserted = <<>>
    /\ indexer = "start"

\* main is started on some table, with or without a collection of an earlier run
InitIndexer ==
    /\ \E n \in 0..MaxRows : \E kinds \in [1..n -> RowKinds] : cases = Table(kinds)
    /\ collection \in {NoCollection, [exists |-> TRUE, points |-> <<OldPoint>>]}
    /\ cleared = FALSE
    /\ offset = 0
    /\ indexed_count = 0
    /\ upserted = <<>>
    /\ indexer = "start"

\* the two where clauses of get_paged_docs
where_any_source(row) == row.summary_formatted_en # Null
where(row) == row.summary_formatted_en # Null /\ row.source = SupremeCourt

\* get_paged_docs: the rows the select returns, in the order of the table
get_paged_docs(from, count) ==
    LET results == SelectSeq(cases, where)
    IN  SubSeq(results, from + 1, Min(from + count, Len(results)))

\* text_splitter.split_text: the chunks of a text; of None it raises TypeError
split_text(text) ==
    IF text = Null THEN [raised |-> "TypeError", chunks |-> <<>>]
    ELSE [raised |-> "", chunks |-> [k \in 1..text[3] |-> <<"chunk", text[2], k>>]]

\* the Documents main builds from the chunks of a case
vector_store_docs(case) ==
    LET splitted_docs == split_text(case.summary_formatted).chunks
    IN  [k \in 1..Len(splitted_docs) |->
            [page_content |-> splitted_docs[k],
             metadata |-> [decision_number |-> case.decision_number,
                           full_summary |-> case.summary_formatted]]]

\* the for loop over one page, from its k-th case on: the points of the
\* collection and the cases handed to aadd_documents when it ends, and whether
\* it ended by an exception
RECURSIVE for_case(_, _, _, _)
for_case(paged_results, k, points, added) ==
    IF k > Len(paged_results) THEN
        [points |-> points, added |-> added, raised |-> FALSE]
    ELSE IF split_text(paged_results[k].summary_formatted).raised # "" THEN
        [points |-> points, added |-> added, raised |-> TRUE]
    ELSE for_case(paged_results, k + 1,
                  points \o vector_store_docs(paged_results[k]),
                  Append(added, paged_results[k].id))

\* main up to the loop: an existing collection is deleted, an empty one is
\* created and opened as the vector store
create_collection_keep ==
    /\ indexer = "start"
    /\ cleared' = collection.exists
    /\ collection' = [exists |-> TRUE, points |-> collection.points]
    /\ indexer' = "loop"
    /\ UNCHANGED <<cases, offset, indexed_count, upserted, not_indexer_vars>>
create_collection ==
    /\ indexer = "start"
    /\ cleared' = collection.exists
    /\ collection' = [exists |-> TRUE, points |-> <<>>]
    /\ indexer' = "loop"
    /\ UNCHANGED <<cases, offset, indexed_count, upserted, not_indexer_vars>>

\* one pass of the while loop: read a page, stop if it is empty, else chunk
\* and upsert its cases and move the offset on
page ==
    /\ indexer = "loop"
    /\ LET paged_results == get_paged_docs(offset, limit)
           done == for_case(paged_results, 1, collection.points, upserted)
       IN  IF paged_results = <<>> THEN
               /\ indexer' = "finished"
               /\ UNCHANGED <<collection, offset, indexed_count, upserted>>
           ELSE IF done.raised THEN
               /\ indexer' = "failed"
               /\ collection' = [collection EXCEPT !.points = done.points]
               /\ upserted' = done.added
               /\ UNCHANGED <<offset, indexed_count>>
           ELSE
               /\ collection' = [collection EXCEPT !.points = done.points]
               /\ upserted' = done.added
               /\ offset' = offset + limit
               /\ indexed_count' = indexed_count + Len(paged_results)
               /\ UNCHANGED indexer
    /\ UNCHANGED <<cases, cleared, not_indexer_vars>>

NextIndexer ==
    \/ create_collection
    \/ page

\* ------------------------------------------- one invocation, step by step
\* graph_run_config sets no recursion_limit: the graph runs with the default
\* of langgraph, 25 steps, and raises GraphRecursionError on the step after
recursion_limit == 25

NoConfig == [thread_id |-> 0, user_message |-> 0]

IdleRun ==
    /\ running = "START"
    /\ superstep = 0
    /\ config = NoConfig
    /\ scored = "none"

\* agent_graph.ainvoke(user_input, graph_run_config): the edge START -> agent
ainvoke_start(t, q) ==
    /\ running = "START"
    /\ running' = "agent"
    /\ superstep' = 0
    /\ config' = [thread_id |-> graph_run_config(t).configurable.thread_id,
                  user_message |-> q]
    /\ scored' = "none"
    /\ UNCHANGED not_run_vars

\* a node is due and the steps are used up
GraphRecursionError ==
    /\ running \in {"agent", "retrieve", "rewrite", "generate"}
    /\ superstep >= recursion_limit
    /\ running' = "GraphRecursionError"
    /\ UNCHANGED <<superstep, config, scored, not_run_vars>>

\* node agent and the conditional edge tools_condition
run_agent ==
    /\ running = "agent"
    /\ superstep < recursion_limit
    /\ \E calls \in BOOLEAN : running' = tools_condition(<<AgentResult(calls)>>)
    /\ superstep' = superstep + 1
    /\ UNCHANGED <<config, scored, not_run_vars>>

\* node retrieve and the conditional edge grade_documents
run_retrieve ==
    /\ running = "retrieve"
    /\ superstep < recursion_limit
    /\ \E score \in Scores :
          /\ scored' = score
          /\ running' = grade_documents(score)
    /\ superstep' = superstep + 1
    /\ UNCHANGED <<config, not_run_vars>>

\* node rewrite and the edge rewrite -> agent
run_rewrite ==
    /\ running = "rewrite"
    /\ superstep < recursion_limit
    /\ running' = "agent"
    /\ superstep' = superstep + 1
    /\ UNCHANGED <<config, scored, not_run_vars>>

\* node generate and the edge generate -> END
run_generate ==
    /\ running = "generate"
    /\ superstep < recursion_limit
    /\ running' = "END"
    /\ superstep' = superstep + 1
    /\ UNCHANGED <<config, scored, not_run_vars>>

\* the caller has the final state, or the exception; the next request comes
ainvoke_over ==
    /\ running \in {"END", "GraphRecursionError"}
    /\ running' = "START"
    /\ superstep' = 0
    /\ config' = NoConfig
    /\ scored' = "none"
    /\ UNCHANGED not_run_vars

NextRun ==
    \/ \E t \in ThreadIds, q \in Questions : ainvoke_start(t, q)
    \/ GraphRecursionError
    \/ run_agent
    \/ run_retrieve
    \/ run_rewrite
    \/ run_generate
    \/ ainvoke_over

vars == <<graph_vars, http_vars, retry_vars, indexer_vars, run_vars>>

Init == InitGraph /\ api_key = "" /\ IdleHttp /\ IdleRetry /\ IdleIndexer /\ IdleRun

Next ==
    \/ \E r \in Slots, t \in ThreadIds, q \in Questions : send_message(r, t, q)
    \/ \E q \in Questions : cli_turn(q)
    \/ cli_quit
    \/ \E r \in Slots : agent(r)
    \/ \E r \in Slots : retrieve(r)
    \/ \E r \in Slots : rewrite(r)
    \/ \E r \in Slots : generate(r)
    \/ \E r \in Slots : Return(r)
    \/ \E r \in Slots : Close(r)

Spec == Init /\ [][Next]_vars

\* the server as it starts, with no call of call_model under way
InitServer == InitHttp /\ IdleRetry /\ IdleIndexer /\ IdleRun

SpecHttp == InitServer /\ [][NextHttp]_vars

SpecRetry == Init /\ [][NextRetry]_vars

\* the indexer as it starts; no server runs in its process
InitMain ==
    /\ InitGraph /\ program = "local_agent"
    /\ api_key = "" /\ IdleHttp /\ IdleRetry
    /\ InitIndexer
    /\ IdleRun

SpecIndexer == InitMain /\ [][NextIndexer]_vars

\* an invocation that can take a step takes one: every node returns, since
\* every call of a model or of the retriever ends
SpecRun == Init /\ [][NextRun]_vars /\ WF_vars(NextRun)

\* ------------------------------------------------- claims on the graph
GraphNodes == {"agent", "retrieve", "rewrite", "generate"}

\* invocation r takes a step of the graph in this transition
GraphStep(r) == at'[r] # at[r] /\ (at[r] \in GraphNodes \/ at'[r] \in GraphNodes \cup {"END"})

\* C1: within one invocation of the graph the steps follow only the edges
\* START -> agent, agent -> retrieve (exactly when the agent's message holds a
\* tool call), agent -> END, retrieve -> generate, retrieve -> rewrite,
\* rewrite -> agent and generate -> END.
C1_OnlyGraphEdges ==
    [][\A r \in Slots :
         GraphStep(r) =>
            /\ <<at[r], at'[r]>> \in
                  {<<"START", "agent">>, <<"agent", "retrieve">>, <<"agent", "END">>,
                   <<"retrieve", "generate">>, <<"retrieve", "rewrite">>,
                   <<"rewrite", "agent">>, <<"generate", "END">>}
            /\ at[r] = "agent" =>
                  (at'[r] = "retrieve" <=> Last(messages'[r]).tool_calls)]_vars

\* a rewrite has handed the turn back to the agent
C1_Witness ==
    \E r \in Slots :
       /\ at[r] = "agent"
       /\ Len(messages[r]) >= 4
       /\ Last(messages[r]).content[1] = "improved"

\* C2: generate is entered only from retrieve, and only when grade_documents
\* scored the retrieved documents exactly 'yes'; with any other score retrieve
\* is followed by rewrite.
C2_GenerateOnlyOnYes ==
    [][\A r \in Slots :
         /\ (at'[r] = "generate" /\ at[r] # "generate") =>
               /\ at[r] = "retrieve"
               /\ tid'[r] = tid[r]
               /\ grade'[r].binary_score = "yes"
               /\ Last(messages'[r]).type = "tool"
         /\ (at[r] = "retrieve" /\ at'[r] # "retrieve"
               /\ grade'[r].binary_score # "yes") => at'[r] = "rewrite"]_vars

\* generate has run in one invocation while another, whose documents were
\* scored 'Yes', waits at rewrite
C2_Witness ==
    \E r, o \in Slots :
       /\ at[r] = "END"
       /\ Last(messages[r]).additional_kwargs # NoKwargs
       /\ at[o] = "rewrite"
       /\ grade[o].binary_score = "Yes"

\* the invocation of r acts in this transition
Acts(r) == at'[r] # at[r]

\* C3: a chat request for thread_id A starts from the history stored for A and
\* no step of it changes the stored history of another thread_id.
C3_ThreadIsolation ==
    [][\A r \in Slots :
         Acts(r) =>
            /\ (at[r] = "START" /\ at'[r] = "agent") =>
                  messages'[r] =
                     checkpointer[tid'[r]] \o <<HumanMessage(user_message'[r])>>
            /\ \A B \in ThreadIds \ {tid'[r]} : checkpointer'[B] = checkpointer[B]]_vars

\* requests for two different threads are in flight, each past its agent
\* step, and each thread has stored messages
C3_Witness ==
    /\ program = "http_server"
    /\ tid[1] # tid[2]
    /\ \A r \in Slots : at[r] \in {"retrieve", "END"}
    /\ \A t \in ThreadIds : Len(checkpointer[t]) >= 2

C5_AtMostCallsPerMinute ==
    /\ \A ip \in Clients : \A m \in 0..MaxMinute : served[ip][m] <= calls_per_minute
    /\ \A r \in Requests :
          req[r].limited => served[req[r].client][req[r].minute] >= calls_per_minute

\* a client used its whole allowance in minute 0 and a request of the same
\* client is passed on in minute 1
C5_Witness ==
    \E r \in Requests :
        /\ layer[r] = AtEndpoint
        /\ req[r].forwarded
        /\ req[r].minute = 1
        /\ served[req[r].client][0] = calls_per_minute
        /\ served[req[r].client][1] >= 1

\* ----------------------------------------------------------------------
\* C6. A request over its client's limit is answered with status 429 and the
\* detail 'Too many requests', and the graph is not invoked for it.
C6_Answered429 ==
    \A r \in Requests :
        req[r].limited =>
            /\ req[r].status = 429
            /\ req[r].detail = "Too many requests"
            /\ ~req[r].invoked

\* ----------------------------------------------------------------------
\* C7. The request ID the endpoint reads from request.state.request_id, and
\* logs with, is the one LoggingMiddleware wrote into the scope of the same
\* request, and never the default '-'.
C7_EndpointReadsLoggingId ==
    \A r \in Requests :
        req[r].invoked =>
            /\ req[r].log_request_id = req[r].scope_request_id
            /\ req[r].log_request_id # DefaultRequestId

\* ----------------------------------------------------------------------
\* C8. With a non-empty API key configured, a request at the endpoint gets
\* the graph invoked only if its X-API-Key header equals the key; with the
\* header missing or different it is answered 403 'Invalid API key' and no
\* thread's history changes. With no key configured every request at the
\* endpoint is accepted.
C8_ApiKeyGate ==
    [][\A r \in Requests :
          (layer[r] = AtEndpoint /\ layer'[r] = Done) =>
              IF api_key # "" /\ req'[r].header # api_key
              THEN /\ ~req'[r].invoked
                   /\ req'[r].status = 403
                   /\ req'[r].detail = "Invalid API key"
                   /\ checkpointer' = checkpointer
              ELSE /\ req'[r].invoked
                   /\ req'[r].status = 200]_vars

\* with the key "secret" configured, one request without the header and one
\* with a different key have been answered 403, or one of them next to a
\* request that carried the key and had the graph invoked
C8_Witness ==
    /\ api_key = "secret"
    /\ \E r1, r2 \in Requests :
          /\ layer[r1] = Done /\ layer[r2] = Done
          /\ req[r1].forwarded /\ req[r1].header \in {NoHeader, "wrong"}
          /\ req[r1].status = 403 /\ ~req[r1].invoked
          /\ req[r2].forwarded /\ req[r2].header = "secret"
          /\ req[r2].invoked /\ req[r2].status = 200
          /\ \E t \in ThreadIds : checkpointer[t] # <<>>

\* ----------------------------------------------------------------------
\* C9. call_model makes at most 5 attempts; no attempt follows one that
\* succeeded, whose completion is what call_model returns; and when 5 attempts
\* have failed with retryable errors the caller gets the exception of the
\* fifth attempt itself, not a RetryError.
C9_AtMostFiveAttempts ==
    /\ Len(outcomes) <= 5
    /\ \A i \in 1..Len(outcomes) :
          outcomes[i] = Completion =>
              /\ i = Len(outcomes)
              /\ phase = "returned"
              /\ call_result = [how |-> "returned", what |-> outcomes[i]]
    /\ phase = "returned" => outcomes # <<>> /\ Last(outcomes) = Completion
    /\ (Len(outcomes) = 5 /\ Last(outcomes) # Completion) =>
          /\ phase = "raised"
          /\ call_result = [how |-> "raised", what |-> outcomes[5]]

\* five attempts failed with retryable errors, the first and the fifth with
\* different ones, and the caller got the fifth
C9_Witness ==
    /\ phase = "raised"
    /\ Len(outcomes) = 5
    /\ \A i \in 1..5 : outcomes[i] \in RetryableErrors
    /\ outcomes[1] # outcomes[5]
    /\ call_result.what = outcomes[5]

\* ----------------------------------------------------------------------
\* C10. Another attempt, and the wait before it, follow only an attempt that
\* raised Timeout, RateLimitError, APIConnectionError, APIError or
\* ServiceUnavailableError; an attempt that raised anything else is the last
\* one, no wait follows it and the caller gets that exception.
C10_RetryOnlyListed ==
    LET listed == {"Timeout", "RateLimitError", "APIConnectionError", "APIError",
                   "ServiceUnavailableError"}
    IN  /\ \A i \in 1..Len(outcomes) - 1 : outcomes[i] \in listed
        /\ \A i \in 1..Len(waits) : outcomes[i] \in listed
        /\ \A i \in 1..Len(outcomes) :
              outcomes[i] \notin listed \cup {Completion} =>
                  /\ i = Len(outcomes)
                  /\ Len(waits) = i - 1
                  /\ phase = "raised"
                  /\ call_result = [how |-> "raised", what |-> outcomes[i]]

\* the first attempt raised an exception outside the list and the caller got
\* it with no wait
C10_Witness ==
    /\ phase = "raised"
    /\ Len(outcomes) = 1
    /\ outcomes[1] \in OtherErrors
    /\ waits = <<>>
    /\ call_result = [how |-> "raised", what |-> outcomes[1]]

\* ----------------------------------------------------------------------
\* C11. Once the loop of the indexer has ended, it ended at the first empty
\* page, and every row of the table with source 'Indonesia Supreme Court' and
\* a summary_formatted_en was chunked and handed to the vector store exactly
\* once.
C11_EveryQualifyingRowOnce ==
    indexer \notin {"start", "loop"} =>
        /\ indexer = "finished"
        /\ \A i \in 1..Len(cases) :
              (cases[i].source = "Indonesia Supreme Court"
                  /\ cases[i].summary_formatted_en # Null) =>
                 Cardinality({k \in 1..Len(upserted) : upserted[k] = cases[i].id}) = 1

\* ----------------------------------------------------------------------
\* C12. In every turn, also one that resumes a thread from the checkpointer,
\* the question grade_documents grades the documents against, the question
\* rewrite improves and the question generate answers is the user message
\* submitted in that turn (stated for turns no other turn of the thread
\* overlaps).
C12_QuestionOfThisTurn ==
    \A r \in Slots :
        (InFlight(r) /\ solo[r]) =>
            LET submitted == HumanMessage(user_message[r]).content
                last == Last(messages[r])
            IN  /\ grade[r] # NoGrade => grade[r].question = submitted
                /\ last.content[1] \in {"improved", "response", "response+Referensi"} =>
                      last.content[2] = submitted[2]

\* ----------------------------------------------------------------------
\* C13. Every invocation of the graph eventually reaches END, whatever the
\* agent and the grader answer.
C13_ReachesEND ==
    (running = "agent" /\ superstep = 0) ~> (running = "END")

\* ----------------------------------------------------------------------
\* C14. The chat endpoint returns as response the content of the last message
\* of the final state of the turn, and as references the list generate
\* attached to that message; when the turn ended at the agent step the
\* references are empty, whatever earlier turns of the thread returned.
C14_ResponseAndReferences ==
    \A r \in Slots :
        at[r] = "returned" =>
            LET last == Last(messages[r])
            IN  /\ reply[r].response = last.content
                /\ \A references \in ReferenceLists :
                      <<"references", references>> \in last.additional_kwargs =>
                          reply[r].references = references
                /\ last.content[1] = "agent" => reply[r].references = <<>>

\* the server has answered a turn that ended at the agent step, with empty
\* references, on a thread whose earlier turn was answered with references
C14_Witness ==
    /\ program = "http_server"
    /\ \E r \in Slots :
          /\ at[r] = "returned"
          /\ Last(messages[r]).content[1] = "agent"
          /\ reply[r].references = <<>>
          /\ \E k \in 1..Len(messages[r]) :
                <<"references", <<"doc">>>> \in messages[r][k].additional_kwargs

\* ----------------------------------------------------------------------
\* C15. The indexer upserts nothing before it has deleted an existing
\* collection and created an empty one; from then on, and so when the run
\* completes, every vector of the collection was written by this run: it is a
\* chunk of a case this run handed to the vector store, and it carries the
\* decision_number and the full summary_formatted of that case.
C15_RebuiltFromScratch ==
    /\ indexer = "start" => upserted = <<>>
    /\ indexer # "start" =>
          /\ collection.exists
          /\ \A k \in 1..Len(collection.points) :
                LET point == collection.points[k]
                IN  \E i \in 1..Len(cases) :
                       /\ \E u \in 1..Len(upserted) : upserted[u] = cases[i].id
                       /\ point.page_content[2] = cases[i].id
                       /\ point.metadata.decision_number = cases[i].decision_number
                       /\ point.metadata.full_summary = cases[i].summary_formatted

\* a run that found a collection of an earlier run has completed, and the
\* collection holds the chunks of two of its cases
C15_Witness ==
    /\ indexer = "finished"
    /\ cleared
    /\ \E k, o \in 1..Len(collection.points) :
          collection.points[k].metadata.decision_number
             # collection.points[o].metadata.decision_number

\* ----------------------------------------------------------------------
\* C16. Every wait before a retry of call_model is at least 5 and at most 10
\* seconds, and no wait is shorter than the wait before the retry preceding it.
C16_BackoffBoundedMonotone ==
    /\ \A n \in 1..Len(waits) : 5 <= waits[n] /\ waits[n] <= 10
    /\ \A n \in 1..Len(waits) - 1 : waits[n] <= waits[n + 1]

\* call_model has waited before each of its four retries, the last wait
\* longer than the first
C16_Witness ==
    /\ Len(waits) = 4
    /\ Len(outcomes) = 5
    /\ waits[4] > waits[1]

====
